---- MODULE Spec2Model ----
(***************************************************************************)
(* Render-to-texture compositing: the Dimensions registry of main.rs, its  *)
(* two Update systems (switch_dimension, on_resize_system) and the         *)
(* PostProcessNode of post_process.rs that binds the registry's textures   *)
(* and draws the full-screen pass.                                         *)
(*                                                                         *)
(* One application tick is modelled as the Update schedule (each system at *)
(* most once, in either order) followed by one rendered frame in which the *)
(* camera driver runs the core_2d graph once per camera, by camera order.  *)
(***************************************************************************)
EXTENDS Integers, Sequences, FiniteSets, TLC

\* ---- bounds of the model ------------------------------------------------
MaxN == 3          \* largest number of entries of a registry
MaxPresses == 4    \* largest number of advance-selection triggers followed
MaxEvents == 2     \* largest number of WindowResized events in one tick
MaxCompositors == 2  \* largest number of compositing cameras, each with a registry
MaxMultiN == 2     \* largest number of entries of a registry when there are several

\* ---- program constants --------------------------------------------------
MAX_TEXTURE_COUNT == 2
SceneCameraOrder == -1
MainCameraOrder == 0
InitialWidth == 1280
InitialHeight == 720
NumCompositors == 1

VARIABLES
    regs,        \* main world: the Dimensions components, one per compositing camera
    imgSize,     \* main world: Assets<Image>, handle -> <<width, height>>
    presses,     \* number of times switch_dimension has run
    pc,          \* "update" | "render" | "crashed"
    ran,         \* Update systems that have run in the current tick
    resized,     \* what on_resize_system did in the current tick
    r_regs,      \* render world: the extracted Dimensions components
    gpu,         \* render world: RenderAssets<Image>, handle -> resolvable
    pipelineReady,
    globalsReady,
    viewTargetReady,
    todo,        \* cameras whose graph has not run yet in this frame
    written,     \* offscreen images written by their scene pass in this frame
    outcome,     \* what PostProcessNode::run did on each view in this frame
    prev         \* the previous frame's run, per compositing camera

vars == <<regs, imgSize, presses, pc, ran, resized, r_regs, gpu, pipelineReady,
          globalsReady, viewTargetReady, todo, written, outcome, prev>>

\* ---- helpers --------------------------------------------------------------
Min(a, b) == IF a < b THEN a ELSE b

Last(s) == s[Len(s)]

\* the image handles a sequence of registries refers to
HandlesOf(rs) == UNION {{rs[i].dimensions[j] : j \in 1..Len(rs[i].dimensions)} : i \in 1..Len(rs)}

\* ---- main.rs: setup --------------------------------------------------------
\* the Dimensions component spawned with the main pass camera: n entries, one
\* per create_camera call, selected: 0
Dimensions(n) == [dimensions |-> [j \in 1..n |-> j], selected |-> 0]

\* Extent3d { width: 1280, height: 720 }
InitialSize == <<InitialWidth, InitialHeight>>

\* ---- main.rs: switch_dimension --------------------------------------------
\* a plausible slip: the increment without the wrap
next_selected_nowrap(selected, nb_dimensions) == selected + 1

\* a plausible slip: the wrap taken over one entry too few
next_selected_short(selected, nb_dimensions) ==
    IF nb_dimensions = 1 THEN 0 ELSE (selected + 1) % (nb_dimensions - 1)

\* dimensions.selected = (dimensions.selected + 1) % nb_dimensions
next_selected(selected, nb_dimensions) == (selected + 1) % nb_dimensions

\* the loop over the Dimensions components from the k-th on; an empty registry
\* returns from the whole system
RECURSIVE switch_from(_, _)
switch_from(rs, k) ==
    IF k > Len(rs) THEN rs
    ELSE LET nb_dimensions == Len(rs[k].dimensions)
         IN  IF nb_dimensions = 0 THEN rs
             ELSE switch_from(
                    [rs EXCEPT ![k].selected = next_selected(rs[k].selected, nb_dimensions)],
                    k + 1)

switch_dimension(rs) == switch_from(rs, 1)

\* ---- main.rs: on_resize_system ---------------------------------------------
\* WindowResized carries f32 logical sizes; they are modelled in half pixels,
\* and `as u32` truncates toward zero (saturating below at 0)
AsU32(x) == IF x < 0 THEN 0 ELSE x \div 2

\* a plausible slip: the first event of the tick instead of the last
on_resize_system_first(images, rs, batch) ==
    IF batch = <<>> THEN images
    ELSE LET size == <<AsU32(batch[1][1]), AsU32(batch[1][2])>>
         IN  [h \in DOMAIN images |-> IF h \in HandlesOf(rs) THEN size ELSE images[h]]

\* the events of one tick, last one wins, applied to every image a registry names
on_resize_system(images, rs, batch) ==
    IF batch = <<>> THEN images
    ELSE LET size == <<AsU32(Last(batch)[1]), AsU32(Last(batch)[2])>>
         IN  [h \in DOMAIN images |-> IF h \in HandlesOf(rs) THEN size ELSE images[h]]

\* ---- post_process.rs: PostProcessNode::run --------------------------------
NotRun == [result |-> "NotRun", flipped |-> FALSE, draws |-> 0, vertices |-> 0,
           instances |-> 0, textures |-> <<>>, sampler |-> 0]

\* a plausible slip: the early return reports an error instead of Ok(())
SkippedErr(flipped) == [NotRun EXCEPT !.result = "Err", !.flipped = flipped]

\* `return Ok(())` before the render pass; flipped tells whether
\* post_process_write had been called by then
Skipped(flipped) == [NotRun EXCEPT !.result = "Ok", !.flipped = flipped]

\* iter().take(n)
Take(s, n) == SubSeq(s, 1, Min(n, Len(s)))

\* a plausible slip: the skip left out
CycleTake(s, k, n) ==
    IF Len(s) = 0 THEN <<>>
    ELSE [i \in 1..n |-> s[((i - 1) % Len(s)) + 1]]

\* iter().cycle().skip(k).take(n): position p of the cycle is s[p mod len];
\* the cycle of an empty sequence is empty
CycleSkipTake(s, k, n) ==
    IF Len(s) = 0 THEN <<>>
    ELSE [i \in 1..n |-> s[((k + i - 1) % Len(s)) + 1]]

PostProcessNode_run(has_dimensions, dimensions, has_view_target, has_pipeline, has_globals, gpu_images) ==
    IF ~has_dimensions THEN Skipped(FALSE)
    ELSE IF ~has_view_target THEN Skipped(FALSE)
    ELSE IF ~has_pipeline THEN Skipped(FALSE)
    ELSE IF ~has_globals THEN Skipped(FALSE)
    ELSE \* post_process_write() has flipped the view target from here on
         LET handles == Take(dimensions.dimensions, MAX_TEXTURE_COUNT)
         IN  IF \E i \in 1..Len(handles) : ~gpu_images[handles[i]]
             THEN Skipped(TRUE)
             ELSE LET images == handles
                      textures == CycleSkipTake(images, dimensions.selected,
                                                Min(MAX_TEXTURE_COUNT, Len(images)))
                  IN  IF Len(images) = 0
                      THEN \* images[0].sampler: index out of bounds
                           [NotRun EXCEPT !.result = "Panic", !.flipped = TRUE]
                      ELSE [result |-> "Ok", flipped |-> TRUE, draws |-> 1,
                            vertices |-> 3, instances |-> 1,
                            textures |-> textures, sampler |-> images[1]]

\* ---- the cameras of a frame ------------------------------------------------
SceneView(h) == <<"scene", h>>
MainView(i) == <<"main", i>>

Views(images, rs) ==
    {SceneView(h) : h \in DOMAIN images} \cup {MainView(i) : i \in 1..Len(rs)}

\* a plausible slip: `order: -1` left out of create_camera
OrderDefault(v) == MainCameraOrder

\* Camera { order: -1, .. } for create_camera's cameras, the default for the main one
Order(v) == IF v[1] = "scene" THEN SceneCameraOrder ELSE MainCameraOrder

\* the camera driver runs the cameras' graphs sorted by order
IsNext(v) == v \in todo /\ \A u \in todo : Order(v) <= Order(u)

\* ---- inputs ----------------------------------------------------------------
\* WindowResized sizes in half pixels: 1280x720, 640x360, 0x720, 1280x0, 1280.5x720.5
ResizeEvents == {<<2560, 1440>>, <<1280, 720>>, <<0, 1440>>, <<2560, 0>>, <<2561, 1441>>}

Batches == UNION {[1..k -> ResizeEvents] : k \in 0..MaxEvents}

NoResize == [done |-> FALSE, batch |-> <<>>, before |-> <<>>]

\* ---- state machine ---------------------------------------------------------
FrameReset ==
    /\ gpu' = [h \in DOMAIN imgSize |-> FALSE]
    /\ pipelineReady' = FALSE
    /\ globalsReady' = FALSE
    /\ viewTargetReady' = FALSE
    /\ todo' = {}
    /\ written' = {}
    /\ outcome' = [v \in Views(imgSize, regs) |-> NotRun]

Init ==
    /\ regs \in {[i \in 1..NumCompositors |-> Dimensions(n)] : n \in 0..MaxN}
    /\ imgSize = [h \in HandlesOf(regs) |-> InitialSize]
    /\ presses = 0
    /\ pc = "update"
    /\ ran = {}
    /\ resized = NoResize
    /\ r_regs = regs
    /\ gpu = [h \in DOMAIN imgSize |-> FALSE]
    /\ pipelineReady = FALSE
    /\ globalsReady = FALSE
    /\ viewTargetReady = FALSE
    /\ todo = {}
    /\ written = {}
    /\ outcome = [v \in Views(imgSize, regs) |-> NotRun]
    /\ prev = [i \in 1..Len(regs) |-> [draws |-> 0, flipped |-> FALSE]]

\* the sum of the first k numbers of a sequence
RECURSIVE SumTo(_, _)
SumTo(ns, k) == IF k = 0 THEN 0 ELSE SumTo(ns, k - 1) + ns[k]

\* a Dimensions component of n entries whose images are the n created after
\* the first `base` ones
DimensionsAt(base, n) == [dimensions |-> [j \in 1..n |-> base + j], selected |-> 0]

\* several compositing cameras, each spawned as setup spawns its one, each
\* with its own offscreen images; the sequence is the order the query visits
InitMulti ==
    /\ \E c \in 1..MaxCompositors : \E ns \in [1..c -> 0..MaxMultiN] :
           regs = [i \in 1..c |-> DimensionsAt(SumTo(ns, i - 1), ns[i])]
    /\ imgSize = [h \in HandlesOf(regs) |-> InitialSize]
    /\ presses = 0
    /\ pc = "update"
    /\ ran = {}
    /\ resized = NoResize
    /\ r_regs = regs
    /\ gpu = [h \in DOMAIN imgSize |-> FALSE]
    /\ pipelineReady = FALSE
    /\ globalsReady = FALSE
    /\ viewTargetReady = FALSE
    /\ todo = {}
    /\ written = {}
    /\ outcome = [v \in Views(imgSize, regs) |-> NotRun]
    /\ prev = [i \in 1..Len(regs) |-> [draws |-> 0, flipped |-> FALSE]]

\* Update: switch_dimension.run_if(input_just_pressed(KeyCode::D))
SwitchDimension ==
    /\ pc = "update"
    /\ "switch_dimension" \notin ran
    /\ presses < MaxPresses
    /\ regs' = switch_dimension(regs)
    /\ presses' = presses + 1
    /\ ran' = ran \cup {"switch_dimension"}
    /\ UNCHANGED <<imgSize, pc, resized, r_regs, gpu, pipelineReady, globalsReady,
                   viewTargetReady, todo, written, outcome, prev>>

\* Update: on_resize_system, with the WindowResized events of this tick
OnResize(batch) ==
    /\ pc = "update"
    /\ "on_resize_system" \notin ran
    /\ imgSize' = on_resize_system(imgSize, regs, batch)
    /\ resized' = [done |-> TRUE, batch |-> batch, before |-> imgSize]
    /\ ran' = ran \cup {"on_resize_system"}
    /\ UNCHANGED <<regs, presses, pc, r_regs, gpu, pipelineReady, globalsReady,
                   viewTargetReady, todo, written, outcome, prev>>

\* extraction into the render world, and what the frame finds prepared
BeginFrame ==
    /\ pc = "update"
    /\ "on_resize_system" \in ran
    /\ pc' = "render"
    /\ ran' = {}
    /\ resized' = NoResize
    /\ r_regs' = regs
    /\ gpu' \in [DOMAIN imgSize -> BOOLEAN]
    /\ pipelineReady' \in BOOLEAN
    /\ globalsReady' \in BOOLEAN
    /\ viewTargetReady' \in BOOLEAN
    /\ todo' = Views(imgSize, regs)
    /\ written' = {}
    /\ outcome' = [v \in Views(imgSize, regs) |-> NotRun]
    /\ UNCHANGED <<regs, imgSize, presses, prev>>

\* the graph of a scene camera: its pass writes the offscreen image, then the
\* node runs on this view, which has no Dimensions
RenderSceneView(h) ==
    /\ pc = "render"
    /\ IsNext(SceneView(h))
    /\ todo' = todo \ {SceneView(h)}
    /\ written' = IF gpu[h] THEN written \cup {h} ELSE written
    /\ outcome' = [outcome EXCEPT ![SceneView(h)] =
                     PostProcessNode_run(FALSE, Dimensions(0), gpu[h], pipelineReady,
                                         globalsReady, gpu)]
    /\ UNCHANGED <<regs, imgSize, presses, pc, ran, resized, r_regs, gpu,
                   pipelineReady, globalsReady, viewTargetReady, prev>>

\* the graph of the compositing camera: the node runs with its Dimensions
RenderMainView(i) ==
    /\ pc = "render"
    /\ IsNext(MainView(i))
    /\ LET o == PostProcessNode_run(TRUE, r_regs[i], viewTargetReady, pipelineReady,
                                    globalsReady, gpu)
       IN  /\ outcome' = [outcome EXCEPT ![MainView(i)] = o]
           /\ pc' = IF o.result = "Panic" THEN "crashed" ELSE pc
    /\ todo' = todo \ {MainView(i)}
    /\ UNCHANGED <<regs, imgSize, presses, ran, resized, r_regs, gpu,
                   pipelineReady, globalsReady, viewTargetReady, written, prev>>

EndFrame ==
    /\ pc = "render"
    /\ todo = {}
    /\ pc' = "update"
    /\ prev' = [i \in 1..Len(regs) |->
                  [draws |-> outcome[MainView(i)].draws,
                   flipped |-> outcome[MainView(i)].flipped]]
    /\ FrameReset
    /\ UNCHANGED <<regs, imgSize, presses, ran, resized, r_regs>>

Next ==
    \/ SwitchDimension
    \/ \E batch \in Batches : OnResize(batch)
    \/ BeginFrame
    \/ \E h \in DOMAIN imgSize : RenderSceneView(h)
    \/ \E i \in 1..Len(regs) : RenderMainView(i)
    \/ EndFrame

Spec == Init /\ [][Next]_vars

SpecMulti == InitMulti /\ [][Next]_vars

\* ---- properties ------------------------------------------------------------
Compositors == 1..Len(r_regs)

\* the node's run on compositing camera i in this frame, and what it ran on
Run(i) == outcome[MainView(i)]
Entries(i) == r_regs[i].dimensions
Selected(i) == r_regs[i].selected
HasRun(i) == Run(i).result # "NotRun"
Drew(i) == Run(i).draws > 0
AllResolvable(i) == \A j \in 1..Len(Entries(i)) : gpu[Entries(i)[j]]
Injective(s) == \A a, b \in 1..Len(s) : s[a] = s[b] => a = b

\* C1: with N >= MAX_TEXTURE_COUNT resolvable entries and selected in [0, N),
\* the views a drawing run binds are the cyclic window of length
\* MAX_TEXTURE_COUNT over all N entries starting at selected, without repeats.
C1_WindowOverAllEntries ==
    \A i \in Compositors :
        LET N == Len(Entries(i))
        IN  (Drew(i) /\ N >= MAX_TEXTURE_COUNT /\ AllResolvable(i) /\ Selected(i) \in 0..(N - 1))
            => /\ Run(i).textures =
                    [k \in 1..MAX_TEXTURE_COUNT |-> Entries(i)[((Selected(i) + k - 1) % N) + 1]]
               /\ Injective(Run(i).textures)

\* C2: whenever the node draws, the texture array at binding 1 holds exactly
\* MAX_TEXTURE_COUNT views, all of them entries of the registry; a registry
\* [T0] binds [T0, T0].
C2_ArrayHasLayoutCount ==
    \A i \in Compositors :
        Drew(i) =>
            /\ Len(Run(i).textures) = MAX_TEXTURE_COUNT
            /\ \A k \in 1..Len(Run(i).textures) :
                   \E j \in 1..Len(Entries(i)) : Run(i).textures[k] = Entries(i)[j]
            /\ Len(Entries(i)) = 1 =>
                   Run(i).textures = [k \in 1..MAX_TEXTURE_COUNT |-> Entries(i)[1]]

\* C3: a registry [T0, T1] binds [T0, T1] while selected = 0 and, after k
\* advance-selection triggers, [T0, T1] for even k and [T1, T0] for odd k; one
\* trigger gives selected = 1.
C3_TwoEntriesAlternate ==
    \A i \in Compositors :
        (Len(Entries(i)) = 2 /\ MAX_TEXTURE_COUNT = 2) =>
            /\ regs[i].selected = presses % 2
            /\ (presses = 1) => regs[i].selected = 1
            /\ Drew(i) =>
                  /\ Selected(i) = 0 => Run(i).textures = <<Entries(i)[1], Entries(i)[2]>>
                  /\ presses % 2 = 0 => Run(i).textures = <<Entries(i)[1], Entries(i)[2]>>
                  /\ presses % 2 = 1 => Run(i).textures = <<Entries(i)[2], Entries(i)[1]>>

C3_Witness ==
    \E i \in Compositors :
        /\ Len(Entries(i)) = 2
        /\ presses = 1
        /\ Selected(i) = 1
        /\ Drew(i)
        /\ Run(i).textures = <<Entries(i)[2], Entries(i)[1]>>

\* C4: on an empty registry the node's run issues no draw and returns Ok.
C4_EmptyRegistryReturnsOk ==
    \A i \in Compositors :
        (HasRun(i) /\ Len(Entries(i)) = 0) => (Run(i).draws = 0 /\ Run(i).result = "Ok")

\* the entries the node reads: the first MAX_TEXTURE_COUNT of the registry
ReadEntries(i) == {Entries(i)[j] : j \in 1..Min(MAX_TEXTURE_COUNT, Len(Entries(i)))}
PreconditionsFail(i) ==
    \/ ~pipelineReady
    \/ ~globalsReady
    \/ \E h \in ReadEntries(i) : ~gpu[h]

\* C5: a run with an unresolvable entry among those read, an uncompiled
\* pipeline or no globals binding draws nothing and returns Ok; and a run whose
\* preconditions all hold draws, binding what this frame's registry says,
\* whatever the previous frame's run did.
C5_SkipIsTransient ==
    \A i \in Compositors :
        HasRun(i) =>
            /\ PreconditionsFail(i) => (Run(i).draws = 0 /\ Run(i).result = "Ok")
            /\ (~PreconditionsFail(i) /\ viewTargetReady /\ Len(Entries(i)) > 0) =>
                  /\ Run(i).draws = 1
                  /\ Run(i).result = "Ok"
                  /\ \A k \in 1..Len(Run(i).textures) :
                        Run(i).textures[k]
                          = Entries(i)[((Selected(i) + k - 1) % Cardinality(ReadEntries(i))) + 1]

\* a frame that draws right after a frame skipped for an unresolvable entry
C5_Witness ==
    \E i \in Compositors :
        /\ prev[i].draws = 0
        /\ prev[i].flipped
        /\ Drew(i)
        /\ Selected(i) = 1

\* ---- properties of the Update systems --------------------------------------
\* the handler applied k times
RECURSIVE ApplyTimes(_, _)
ApplyTimes(rs, k) == IF k = 0 THEN rs ELSE ApplyTimes(switch_dimension(rs), k - 1)

\* C6: one application of switch_dimension sets selected to (selected + 1)
\* mod N, N applications return it to where it was, from every selected the
\* triggers reach; with N = 0 no number of applications changes anything.
C6_RotationIsCyclic ==
    \A i \in 1..Len(regs) :
        LET N == Len(regs[i].dimensions)
        IN  /\ N >= 1 =>
                /\ switch_dimension(regs)[i].selected = (regs[i].selected + 1) % N
                /\ ApplyTimes(regs, N)[i].selected = regs[i].selected
                /\ regs[i].selected = presses % N
            /\ N = 0 =>
                /\ \A k \in 0..MaxPresses : ApplyTimes(regs, k) = regs
                /\ regs[i].selected = 0

\* N = 3 triggers on a registry of 3 entries: selected is back at 0
C6_Witness ==
    \E i \in 1..Len(regs) :
        /\ Len(regs[i].dimensions) = 3
        /\ presses = 3
        /\ regs[i].selected = 0

\* C7: every registry with N > 0 entries has 0 <= selected < N, in the main
\* world and as extracted for rendering.
C7_SelectedInRange ==
    /\ \A i \in 1..Len(regs) :
           Len(regs[i].dimensions) > 0 =>
               (0 <= regs[i].selected /\ regs[i].selected < Len(regs[i].dimensions))
    /\ \A i \in Compositors :
           Len(Entries(i)) > 0 => (0 <= Selected(i) /\ Selected(i) < Len(Entries(i)))

\* the last index, reached by triggers, while a frame is rendered from it
C7_Witness ==
    \E i \in Compositors :
        /\ Len(Entries(i)) = 3
        /\ Selected(i) = 2
        /\ presses = 2
        /\ HasRun(i)

IsZeroSized(e) == e[1] = 0 \/ e[2] = 0

\* C8: after the resize handler has processed a batch whose deciding event
\* has width or height 0, every registered image has the size it had before.
C8_ZeroSizeIsNoOp ==
    (resized.done /\ resized.batch # <<>> /\ IsZeroSized(Last(resized.batch))) =>
        \A h \in HandlesOf(regs) : imgSize[h] = resized.before[h]

\* an event of w x h half pixels describes a size of whole pixels
IsSizeOf(size, e) ==
    /\ 2 * size[1] <= e[1] /\ e[1] < 2 * size[1] + 2
    /\ 2 * size[2] <= e[2] /\ e[2] < 2 * size[2] + 2

\* C9: after the resize handler has processed a tick's events, all of them
\* with non-zero sizes, every registered image has the size of the last event,
\* whatever it had before; the same events once more change nothing.
C9_LastEventWins ==
    (/\ resized.done
     /\ resized.batch # <<>>
     /\ \A k \in 1..Len(resized.batch) : ~IsZeroSized(resized.batch[k])) =>
        /\ \A h \in HandlesOf(regs) : IsSizeOf(imgSize[h], Last(resized.batch))
        /\ on_resize_system(imgSize, regs, resized.batch) = imgSize

\* two events in one tick, 640x360 then 1280x720, on images that were 640x360
C9_Witness ==
    /\ resized.done
    /\ resized.batch = <<<<1280, 720>>, <<2560, 1440>>>>
    /\ Len(regs[1].dimensions) = 2
    /\ \A h \in HandlesOf(regs) :
           resized.before[h] = <<640, 360>> /\ imgSize[h] = <<1280, 720>>

\* C10: when the node has run for a compositing camera, the scene camera of
\* every image of its registry has already had its graph run in this frame,
\* and every view the node bound was written by its scene pass in this frame.
C10_ScenePassesFirst ==
    \A i \in Compositors :
        HasRun(i) =>
            /\ \A j \in 1..Len(Entries(i)) : SceneView(Entries(i)[j]) \notin todo
            /\ \A k \in 1..Len(Run(i).textures) : Run(i).textures[k] \in written

C10_Witness ==
    \E i \in Compositors :
        /\ Drew(i)
        /\ Len(Entries(i)) = 3
        /\ Run(i).textures = <<Entries(i)[2], Entries(i)[1]>>
        /\ {Entries(i)[1], Entries(i)[2]} \subseteq written

\* C11: a run that returns after having acquired the source/destination pair
\* of the view target (post_process_write, which flips the main texture) has
\* issued the full-screen draw (3 vertices, 1 instance); a returned run is
\* either Skipped (no flip, no draw) or Drawn (flip and one draw).
C11_FlipImpliesDraw ==
    \A i \in Compositors :
        (HasRun(i) /\ Run(i).result = "Ok") =>
            \/ (~Run(i).flipped /\ Run(i).draws = 0)
            \/ /\ Run(i).flipped
               /\ Run(i).draws = 1
               /\ Run(i).vertices = 3
               /\ Run(i).instances = 1

\* C12: with several registries, the triggers so far have advanced selected
\* by one modulo N each in every registry with N > 0, whatever the other
\* registries hold and wherever it stands in the visiting order, and have left
\* every registry with N = 0 as it was.
C12_RegistriesAdvanceIndependently ==
    \A i \in 1..Len(regs) :
        LET N == Len(regs[i].dimensions)
        IN  /\ N > 0 => regs[i].selected = presses % N
            /\ N = 0 => regs[i].selected = 0

====
